---- MODULE Spec2Model ----
(***************************************************************************)
(* LocalStorageVec<T, N>: a growable list that lives in an inline buffer   *)
(* of N slots while it is small and moves to a heap Vec when it grows.     *)
(* Model of 2-foundations-of-rust/4-traits-and-generics/                   *)
(* 1-local-storage-vec/src/lib.rs.                                         *)
(*                                                                         *)
(* Rust positions are 0-based, TLA+ sequences are 1-based: slot i of the   *)
(* code is element i + 1 of the sequence that models the buffer.           *)
(***************************************************************************)
EXTENDS Integers, Sequences, FiniteSets, TLC

\* Largest inline capacity N the model instantiates.
MaxN == 3
\* Largest number of live elements; push and insert are not taken beyond it.
MaxLen == 4
\* The element type T is 0..MaxVal.
MaxVal == 2

Vals == 0..MaxVal
\* T::default() of the integer element type.
Default == 0
\* Positions handed to insert and remove: every valid one and some beyond.
Indices == 0..(MaxLen + 1)

RECURSIVE SeqsUpTo(_)
SeqsUpTo(n) ==
  IF n = 0 THEN {<<>>}
  ELSE LET shorter == SeqsUpTo(n - 1)
       IN shorter \cup {Append(s, x) : s \in {t \in shorter : Len(t) = n - 1}, x \in Vals}

VARIABLES
  N,        \* the const generic N of this instantiation
  vec,      \* the LocalStorageVec value (self)
  op,       \* the last call made on vec: its name and arguments
  ret,      \* what that call returned, or Panic
  ctor,     \* the constructor that built vec
  pushOnly, \* TRUE while every call since construction was a push
  iter,     \* the LocalStorageVecIter that consumed vec, once there is one
  orig,     \* the live sequence at the time into_iter was called
  bsn,      \* the string handed to Bsn and what came back
  fizz      \* the buffer handed to fizz_buzz and the last i

vars == <<N, vec, op, ret, ctor, pushOnly, iter, orig, bsn, fizz>>

----------------------------------------------------------------------------
\* The two variants of the enum.
Stack(b, l) == [shape |-> "Stack", buf |-> b, len |-> l]
Heap(v) == [shape |-> "Heap", v |-> v]

\* Return values: Option<T>, T, (), and the unwinding of a panic.
None == [kind |-> "None"]
Some(x) == [kind |-> "Some", val |-> x]
Value(x) == [kind |-> "Value", val |-> x]
Unit == [kind |-> "Unit"]
Panic == [kind |-> "Panic"]

Result(s, r) == [self |-> s, ret |-> r]

----------------------------------------------------------------------------
\* Library operations of std the code delegates to.

\* buf[..len].to_vec()
ToVec(b, l) == SubSeq(b, 1, l)

\* Vec::insert(index, item), defined for index <= len.
VecInsert(v, index, item) ==
  SubSeq(v, 1, index) \o <<item>> \o SubSeq(v, index + 1, Len(v))

\* Vec::remove(index), defined for index < len: the vector left behind.
VecRemove(v, index) ==
  SubSeq(v, 1, index) \o SubSeq(v, index + 2, Len(v))

\* <[T]>::copy_within(s..e, d): panics unless s <= e <= len and the
\* destination range fits; otherwise moves the block like memmove.
\* copy_within that takes a source range with s > e for an empty one.
CopyWithinOk_lenient(b, s, e, d) ==
  e <= Len(b) /\ (s <= e => d + (e - s) <= Len(b))

CopyWithinOk(b, s, e, d) ==
  s <= e /\ e <= Len(b) /\ d + (e - s) <= Len(b)

\* copy_within as a front-to-back element copy: wrong when the destination
\* overlaps the source from above.
CopyWithin_forward(b, s, e, d) ==
  [i \in 1..Len(b) |->
     IF d <= i - 1 /\ i - 1 < d + (e - s)
     THEN IF d > s THEN b[s + (((i - 1) - d) % (d - s)) + 1] ELSE b[(i - 1) - d + s + 1]
     ELSE b[i]]

CopyWithin(b, s, e, d) ==
  [i \in 1..Len(b) |->
     IF d <= i - 1 /\ i - 1 < d + (e - s) THEN b[(i - 1) - d + s + 1] ELSE b[i]]

----------------------------------------------------------------------------
\* Constructors.

\* from(Vec) that moves a short Vec into the inline buffer.
from_vec_fits(v) ==
  IF Len(v) <= N
  THEN [shape |-> "Stack",
        buf |-> [i \in 1..N |-> IF i <= Len(v) THEN v[i] ELSE Default],
        len |-> Len(v)]
  ELSE Heap(v)

from_vec(v) == Heap(v)

\* from(array) without the N <= M test.
from_array_always_stack(array, M) ==
  Stack([i \in 1..M |-> IF i <= Len(array) THEN array[i] ELSE Default], Len(array))

from_array(array, M) ==
  IF Len(array) <= M
  THEN Stack([i \in 1..M |-> IF i <= Len(array) THEN array[i] ELSE Default],
             Len(array))
  ELSE Heap(array)

new(M) == Stack([i \in 1..M |-> Default], 0)

----------------------------------------------------------------------------
\* Methods of impl LocalStorageVec.

len(self) ==
  IF self.shape = "Stack" THEN self.len ELSE Len(self.v)

\* push that promotes one element early (guard len + 1 < N).
push_eager(self, item) ==
  IF self.shape = "Stack" /\ self.len + 1 < N
  THEN Result(Stack([self.buf EXCEPT ![self.len + 1] = item], self.len + 1), Unit)
  ELSE LET v == IF self.shape = "Stack" THEN ToVec(self.buf, self.len) ELSE self.v
       IN Result(Heap(Append(v, item)), Unit)

push(self, item) ==
  IF self.shape = "Stack" /\ self.len < N
  THEN Result(Stack([self.buf EXCEPT ![self.len + 1] = item], self.len + 1), Unit)
  ELSE LET v == IF self.shape = "Stack" THEN ToVec(self.buf, self.len) ELSE self.v
       IN Result(Heap(Append(v, item)), Unit)

\* pop that moves a heap vector back inline as soon as it fits.
pop_demote(self) ==
  IF self.shape = "Stack" /\ self.len > 0
  THEN Result(Stack(self.buf, self.len - 1), Some(self.buf[(self.len - 1) + 1]))
  ELSE IF self.shape = "Heap"
  THEN IF Len(self.v) = 0
       THEN Result(self, None)
       ELSE IF Len(self.v) - 1 <= N
       THEN Result(Stack([i \in 1..N |-> IF i < Len(self.v) THEN self.v[i] ELSE Default],
                         Len(self.v) - 1),
                   Some(self.v[Len(self.v)]))
       ELSE Result(Heap(SubSeq(self.v, 1, Len(self.v) - 1)), Some(self.v[Len(self.v)]))
  ELSE Result(self, None)

\* pop that reads slot len before it decrements len.
pop_read_first(self) ==
  IF self.shape = "Stack" /\ self.len > 0
  THEN IF self.len >= N
       THEN Result(self, Panic)
       ELSE Result(Stack(self.buf, self.len - 1), Some(self.buf[self.len + 1]))
  ELSE IF self.shape = "Heap"
  THEN IF Len(self.v) = 0
       THEN Result(self, None)
       ELSE Result(Heap(SubSeq(self.v, 1, Len(self.v) - 1)), Some(self.v[Len(self.v)]))
  ELSE Result(self, None)

pop(self) ==
  IF self.shape = "Stack" /\ self.len > 0
  THEN Result(Stack(self.buf, self.len - 1), Some(self.buf[(self.len - 1) + 1]))
  ELSE IF self.shape = "Heap"
  THEN IF Len(self.v) = 0
       THEN Result(self, None)
       ELSE Result(Heap(SubSeq(self.v, 1, Len(self.v) - 1)), Some(self.v[Len(self.v)]))
  ELSE Result(self, None)

\* insert that writes the item before it moves the block.
insert_write_first(self, index, item) ==
  IF self.shape = "Stack" /\ self.len < N
  THEN IF index >= N
       THEN Result(self, Panic)
       ELSE LET written == [self.buf EXCEPT ![index + 1] = item]
            IN IF ~CopyWithinOk(written, index, self.len, index + 1)
               THEN Result(Stack(written, self.len), Panic)
               ELSE Result(Stack(CopyWithin(written, index, self.len, index + 1),
                                 self.len + 1), Unit)
  ELSE LET v == IF self.shape = "Stack" THEN ToVec(self.buf, self.len) ELSE self.v
       IN IF index > Len(v)
          THEN Result(Heap(<<>>), Panic)
          ELSE Result(Heap(VecInsert(v, index, item)), Unit)

insert(self, index, item) ==
  IF self.shape = "Stack" /\ self.len < N
  THEN IF ~CopyWithinOk(self.buf, index, self.len, index + 1)
       THEN Result(self, Panic)
       ELSE LET moved == CopyWithin(self.buf, index, self.len, index + 1)
            IN IF index >= N
               THEN Result(Stack(moved, self.len), Panic)
               ELSE Result(Stack([moved EXCEPT ![index + 1] = item], self.len + 1), Unit)
  ELSE LET v == IF self.shape = "Stack" THEN ToVec(self.buf, self.len) ELSE self.v
       IN \* self holds the placeholder Heap(Vec::new()) while v is edited
          IF index > Len(v)
          THEN Result(Heap(<<>>), Panic)
          ELSE Result(Heap(VecInsert(v, index, item)), Unit)

\* remove that reads the item after it moved the block.
remove_read_last(self, index) ==
  IF self.shape = "Stack" /\ self.len > 0
  THEN IF ~CopyWithinOk(self.buf, index + 1, self.len, index)
       THEN Result(self, Panic)
       ELSE LET moved == CopyWithin(self.buf, index + 1, self.len, index)
            IN IF index >= N
               THEN Result(Stack(moved, self.len), Panic)
               ELSE Result(Stack(moved, self.len - 1), Value(moved[index + 1]))
  ELSE IF self.shape = "Heap"
  THEN IF index >= Len(self.v)
       THEN Result(self, Panic)
       ELSE Result(Heap(VecRemove(self.v, index)), Value(self.v[index + 1]))
  ELSE Result(self, Panic)

remove(self, index) ==
  IF self.shape = "Stack" /\ self.len > 0
  THEN IF index >= N
       THEN Result(self, Panic)
       ELSE IF ~CopyWithinOk(self.buf, index + 1, self.len, index)
       THEN Result(self, Panic)
       ELSE Result(Stack(CopyWithin(self.buf, index + 1, self.len, index), self.len - 1),
                   Value(self.buf[index + 1]))
  ELSE IF self.shape = "Heap"
  THEN IF index >= Len(self.v)
       THEN Result(self, Panic)
       ELSE Result(Heap(VecRemove(self.v, index)), Value(self.v[index + 1]))
  ELSE Result(self, Panic)

\* clear that leaves a heap vector as it is.
clear_stack_only(self) ==
  IF self.shape = "Stack"
  THEN Result(Stack(self.buf, 0), Unit)
  ELSE Result(self, Unit)

clear(self) ==
  IF self.shape = "Stack"
  THEN Result(Stack(self.buf, 0), Unit)
  ELSE Result(Heap(<<>>), Unit)

----------------------------------------------------------------------------
\* Read-only and mutable projections, and the single-index read.

as_ref(self) ==
  IF self.shape = "Stack" THEN SubSeq(self.buf, 1, self.len) ELSE self.v

\* as_mut that hands out the whole inline buffer.
as_mut_whole_buf(self) ==
  IF self.shape = "Stack" THEN self.buf ELSE self.v

as_mut(self) ==
  IF self.shape = "Stack" THEN SubSeq(self.buf, 1, self.len) ELSE self.v

deref(self) == as_ref(self)

deref_mut(self) == as_mut(self)

\* Index<usize>::index
index_usize(self, index) ==
  IF self.shape = "Stack" /\ index < self.len
  THEN Value(self.buf[index + 1])
  ELSE IF self.shape = "Heap"
  THEN IF index < Len(self.v) THEN Value(self.v[index + 1]) ELSE Panic
  ELSE Panic

\* A view &[T] handed back by a range access.
Slice(s) == [kind |-> "Slice", val |-> s]

\* Range indexing of a slice or Vec in std, s[start..end]: panics when
\* start > end or end > len.
SliceRange(s, start, end) ==
  IF start > end \/ end > Len(s) THEN Panic ELSE Slice(SubSeq(s, start + 1, end))

\* Index<RangeTo<usize>>::index, vec[..end]
index_to(self, end) ==
  IF self.shape = "Stack" /\ end <= self.len
  THEN SliceRange(self.buf, 0, end)
  ELSE IF self.shape = "Heap"
  THEN SliceRange(self.v, 0, end)
  ELSE Panic

\* vec[start..] that slices the inline buffer to its end, not to len.
index_from_whole_buf(self, start) ==
  IF self.shape = "Stack" /\ start < self.len
  THEN SliceRange(self.buf, start, Len(self.buf))
  ELSE IF self.shape = "Heap"
  THEN SliceRange(self.v, start, Len(self.v))
  ELSE Panic

\* Index<RangeFrom<usize>>::index, vec[start..]
index_from(self, start) ==
  IF self.shape = "Stack" /\ start < self.len
  THEN SliceRange(self.buf, start, self.len)
  ELSE IF self.shape = "Heap"
  THEN SliceRange(self.v, start, Len(self.v))
  ELSE Panic

\* vec[start..end] that slices the inline buffer without looking at len.
index_range_no_len_check(self, start, end) ==
  IF self.shape = "Stack"
  THEN SliceRange(self.buf, start, end)
  ELSE SliceRange(self.v, start, end)

\* vec[start..end] that tests start, not end, against len.
index_range_checks_start(self, start, end) ==
  IF self.shape = "Stack" /\ start <= self.len
  THEN SliceRange(self.buf, start, end)
  ELSE IF self.shape = "Heap"
  THEN SliceRange(self.v, start, end)
  ELSE Panic

\* Index<Range<usize>>::index, vec[start..end]
index_range(self, start, end) ==
  IF self.shape = "Stack" /\ end <= self.len
  THEN SliceRange(self.buf, start, end)
  ELSE IF self.shape = "Heap"
  THEN SliceRange(self.v, start, end)
  ELSE Panic

\* IndexMut<usize>::index_mut: the slot it hands out, by its content.
index_mut(self, index) ==
  IF self.shape = "Stack" /\ index < self.len
  THEN Value(self.buf[index + 1])
  ELSE IF self.shape = "Heap"
  THEN IF index < Len(self.v) THEN Value(self.v[index + 1]) ELSE Panic
  ELSE Panic

\* A write through the &mut T that index_mut handed out.
SlotWrite(self, index, x) ==
  IF self.shape = "Stack"
  THEN Stack([self.buf EXCEPT ![index + 1] = x], self.len)
  ELSE Heap([self.v EXCEPT ![index + 1] = x])

----------------------------------------------------------------------------
\* Consuming iteration.

NoIter == [active |-> FALSE, counter |-> 0]

\* IntoIterator::into_iter
into_iter(self) == [active |-> TRUE, counter |-> 0]

\* next that tests counter <= len.
next_le(self, counter) ==
  IF counter <= len(self)
  THEN IF index_mut(self, counter) = Panic
       THEN [self |-> self, counter |-> counter, ret |-> Panic]
       ELSE [self |-> SlotWrite(self, counter, Default),
             counter |-> counter + 1,
             ret |-> Some(index_mut(self, counter).val)]
  ELSE [self |-> self, counter |-> counter, ret |-> None]

\* LocalStorageVecIter::next on the iterator holding self: the vector and
\* counter it leaves, and the Option it returns.
next(self, counter) ==
  IF counter < len(self)
  THEN IF index_mut(self, counter) = Panic
       THEN [self |-> self, counter |-> counter, ret |-> Panic]
       ELSE [self |-> SlotWrite(self, counter, Default),
             counter |-> counter + 1,
             ret |-> Some(index_mut(self, counter).val)]
  ELSE [self |-> self, counter |-> counter, ret |-> None]

----------------------------------------------------------------------------
(***************************************************************************)
(* Bsn of 3-crate-engineering/1-crate-engineering/3-bsn/src/lib.rs.        *)
(* A string is the sequence of its characters, a character its code:       *)
(* '0'..'9' are 48..57.                                                    *)
(***************************************************************************)

\* How many trailing characters of a nine-character input vary freely.
BsnFree == 3

\* "999998456" of test_serde and "111222333", both valid by the eleven-test.
BsnBases == {<<57, 57, 57, 57, 57, 56, 52, 53, 54>>,
             <<49, 49, 49, 50, 50, 50, 51, 51, 51>>}

\* Nine digits that share the head of a base, and the bases with one
\* character that is no digit ('x', ' '), with one character less and with
\* one more ("1112223333" of test_serde is one of them), and "".
BsnInputs ==
  UNION {
    {[k \in 1..9 |-> IF k <= 9 - BsnFree THEN b[k] ELSE t[k - (9 - BsnFree)]] :
       t \in [1..BsnFree -> 48..57]}
    \cup {[b EXCEPT ![k] = c] : k \in {1, 5, 9}, c \in {120, 32}}
    \cup {SubSeq(b, 1, 8), b \o <<51>>}
    : b \in BsnBases}
  \cup {<<>>}

\* char::to_digit(10): the digit, or -1 for None.
to_digit(c) == IF c \in 48..57 THEN c - 48 ELSE -1

RECURSIVE SumUpTo(_, _)
\* Iterator::sum over the first n terms of a sequence of i32.
SumUpTo(terms, n) == IF n = 0 THEN 0 ELSE SumUpTo(terms, n - 1) + terms[n]

\* Bsn::validate: Ok, Err(InvalidBsn), or the panic of unwrap on a
\* character that is no digit.
validate(s) ==
  IF Len(s) # 9
  THEN "Err"
  ELSE IF \E k \in 1..Len(s) : to_digit(s[k]) = -1
  THEN "Panic"
  ELSE LET terms == [k \in 1..Len(s) |->
                       IF k - 1 = 8 THEN to_digit(s[k])
                       ELSE (9 - (k - 1)) * to_digit(s[k])]
       IN IF SumUpTo(terms, Len(s)) % 11 = 0 THEN "Ok" ELSE "Err"

\* Bsn::try_from_string: the ? hands on validate's error.
try_from_string(s) == validate(s)

\* Deserialize for Bsn: visit_str maps the error of try_from_string.
deserialize(s) == try_from_string(s)

BsnIdle == [input |-> <<>>, call |-> "none", res |-> "none"]

----------------------------------------------------------------------------
(***************************************************************************)
(* fizz_buzz of 3-crate-engineering/1-crate-engineering/5-fizzbuzz/        *)
(* src/lib.rs. A String is the sequence of its characters.                 *)
(***************************************************************************)

\* Largest i handed to fizz_buzz.
MaxI == 128

DigitChar == <<"0", "1", "2", "3", "4", "5", "6", "7", "8", "9">>

RECURSIVE Decimal(_)
\* write!(result, "{}", i) of a u32: the decimal digits, most significant
\* first.
Decimal(i) ==
  IF i < 10 THEN <<DigitChar[i + 1]>>
  ELSE Decimal(i \div 10) \o <<DigitChar[(i % 10) + 1]>>

\* String::push_str
push_str(s, t) == s \o t

\* fizz_buzz without result.clear().
fizz_buzz_no_clear(i, result) ==
  IF i % 3 = 0 /\ i % 5 = 0 THEN push_str(result, <<"F", "i", "z", "z", "B", "u", "z", "z">>)
  ELSE IF i % 3 = 0 THEN push_str(result, <<"F", "i", "z", "z">>)
  ELSE IF i % 5 = 0 THEN push_str(result, <<"B", "u", "z", "z">>)
  ELSE push_str(result, Decimal(i))

\* fizz_buzz(i, result): the content of result afterwards.
fizz_buzz(i, result) ==
  LET cleared == <<>>
  IN IF i % 3 = 0 /\ i % 5 = 0
     THEN push_str(cleared, <<"F", "i", "z", "z", "B", "u", "z", "z">>)
     ELSE IF i % 3 = 0 THEN push_str(cleared, <<"F", "i", "z", "z">>)
     ELSE IF i % 5 = 0 THEN push_str(cleared, <<"B", "u", "z", "z">>)
     ELSE push_str(cleared, Decimal(i))

FizzIdle == [i |-> 0, result |-> <<>>, prev |-> <<>>, call |-> "none"]

----------------------------------------------------------------------------
\* The state machine: one instantiation, one constructor, then calls.

Call(name, index, item) == [name |-> name, index |-> index, item |-> item, src |-> <<>>]
Construct(name, src) == [name |-> name, index |-> 0, item |-> Default, src |-> src]

panicked == ret = Panic

InitNew ==
  /\ vec = new(N)
  /\ op = Construct("new", <<>>)
  /\ ctor = "new"

InitFromArray ==
  \E array \in SeqsUpTo(MaxLen) :
    /\ vec = from_array(array, N)
    /\ op = Construct("from_array", array)
    /\ ctor = "from_array"

InitFromVec ==
  \E v \in SeqsUpTo(MaxLen) :
    /\ vec = from_vec(v)
    /\ op = Construct("from_vec", v)
    /\ ctor = "from_vec"

Init ==
  /\ N \in 0..MaxN
  /\ \/ InitNew
     \/ InitFromArray
     \/ InitFromVec
  /\ ret = Unit
  /\ pushOnly = TRUE
  /\ iter = NoIter
  /\ orig = <<>>
  /\ bsn = BsnIdle
  /\ fizz = FizzIdle

Push ==
  \E item \in Vals :
    /\ ~panicked
    /\ ~iter.active
    /\ len(vec) < MaxLen
    /\ vec' = push(vec, item).self
    /\ ret' = push(vec, item).ret
    /\ op' = Call("push", 0, item)
    /\ UNCHANGED <<N, ctor, pushOnly, iter, orig, bsn, fizz>>

Pop ==
  /\ ~panicked
  /\ ~iter.active
  /\ vec' = pop(vec).self
  /\ ret' = pop(vec).ret
  /\ op' = Call("pop", 0, Default)
  /\ pushOnly' = FALSE
  /\ UNCHANGED <<N, ctor, iter, orig, bsn, fizz>>

Insert ==
  \E index \in Indices, item \in Vals :
    /\ ~panicked
    /\ ~iter.active
    /\ len(vec) < MaxLen
    /\ vec' = insert(vec, index, item).self
    /\ ret' = insert(vec, index, item).ret
    /\ op' = Call("insert", index, item)
    /\ pushOnly' = FALSE
    /\ UNCHANGED <<N, ctor, iter, orig, bsn, fizz>>

Remove ==
  \E index \in Indices :
    /\ ~panicked
    /\ ~iter.active
    /\ vec' = remove(vec, index).self
    /\ ret' = remove(vec, index).ret
    /\ op' = Call("remove", index, Default)
    /\ pushOnly' = FALSE
    /\ UNCHANGED <<N, ctor, iter, orig, bsn, fizz>>

Clear ==
  /\ ~panicked
  /\ ~iter.active
  /\ vec' = clear(vec).self
  /\ ret' = clear(vec).ret
  /\ op' = Call("clear", 0, Default)
  /\ pushOnly' = FALSE
  /\ UNCHANGED <<N, ctor, iter, orig, bsn, fizz>>

Next ==
  \/ Push
  \/ Pop
  \/ Insert
  \/ Remove
  \/ Clear

Spec == Init /\ [][Next]_vars

----------------------------------------------------------------------------
\* Views, writes through an index, and consuming iteration.

Access(name, start, end) ==
  [name |-> name, index |-> start, item |-> Default, src |-> <<>>, end |-> end]

IndexRead ==
  \E index \in Indices :
    /\ ~panicked
    /\ ~iter.active
    /\ ret' = index_usize(vec, index)
    /\ op' = Call("index", index, Default)
    /\ pushOnly' = FALSE
    /\ UNCHANGED <<N, vec, ctor, iter, orig, bsn, fizz>>

IndexWrite ==
  \E index \in Indices, item \in Vals :
    /\ ~panicked
    /\ ~iter.active
    /\ IF index_mut(vec, index) = Panic
       THEN vec' = vec /\ ret' = Panic
       ELSE vec' = SlotWrite(vec, index, item) /\ ret' = Unit
    /\ op' = Call("index_mut", index, item)
    /\ pushOnly' = FALSE
    /\ UNCHANGED <<N, ctor, iter, orig, bsn, fizz>>

IndexTo ==
  \E end \in Indices :
    /\ ~panicked
    /\ ~iter.active
    /\ ret' = index_to(vec, end)
    /\ op' = Access("index_to", 0, end)
    /\ pushOnly' = FALSE
    /\ UNCHANGED <<N, vec, ctor, iter, orig, bsn, fizz>>

IndexFrom ==
  \E start \in Indices :
    /\ ~panicked
    /\ ~iter.active
    /\ ret' = index_from(vec, start)
    /\ op' = Access("index_from", start, 0)
    /\ pushOnly' = FALSE
    /\ UNCHANGED <<N, vec, ctor, iter, orig, bsn, fizz>>

IndexRange ==
  \E start \in Indices, end \in Indices :
    /\ ~panicked
    /\ ~iter.active
    /\ ret' = index_range(vec, start, end)
    /\ op' = Access("index_range", start, end)
    /\ pushOnly' = FALSE
    /\ UNCHANGED <<N, vec, ctor, iter, orig, bsn, fizz>>

IntoIter ==
  /\ ~panicked
  /\ ~iter.active
  /\ iter' = into_iter(vec)
  /\ orig' = as_ref(vec)
  /\ op' = Call("into_iter", 0, Default)
  /\ ret' = Unit
  /\ pushOnly' = FALSE
  /\ UNCHANGED <<N, vec, ctor, bsn, fizz>>

IterNext ==
  /\ ~panicked
  /\ iter.active
  /\ vec' = next(vec, iter.counter).self
  /\ iter' = [iter EXCEPT !.counter = next(vec, iter.counter).counter]
  /\ ret' = next(vec, iter.counter).ret
  /\ op' = Call("next", iter.counter, Default)
  /\ UNCHANGED <<N, ctor, pushOnly, orig, bsn, fizz>>

NextAll ==
  \/ Next
  \/ IndexRead
  \/ IndexWrite
  \/ IndexTo
  \/ IndexFrom
  \/ IndexRange
  \/ IntoIter
  \/ IterNext

SpecAll == Init /\ [][NextAll]_vars

\* A container that is built, changed and then consumed by an iterator.
NextIter ==
  \/ Next
  \/ IntoIter
  \/ IterNext

SpecIter == Init /\ [][NextIter]_vars

----------------------------------------------------------------------------
TypeOK ==
  /\ N \in 0..MaxN
  /\ vec.shape \in {"Stack", "Heap"}
  /\ vec.shape = "Stack" => Len(vec.buf) = N /\ vec.len \in 0..(MaxLen + 1)
  /\ ctor \in {"new", "from_array", "from_vec"}
  /\ pushOnly \in BOOLEAN

----------------------------------------------------------------------------
\* Shorthands of the properties below.

\* The live sequence, as the read-only projection shows it.
Live(self) == as_ref(self)

Constructors == {"new", "from_array", "from_vec"}

\* The step just taken was the call named name.
Called(name) == op'.name = name /\ vars' # vars

----------------------------------------------------------------------------
\* C1: promotion is monotonic. Once vec is in Heap shape it is in Heap shape
\* after every later push, pop, insert, remove and clear, also when the
\* length comes back to N or below.
C1_PromotionMonotonic ==
  [][vec.shape = "Heap" => vec'.shape = "Heap"]_vars

\* A container built inline by new() that was promoted and then emptied.
C1_Witness ==
  /\ ctor = "new"
  /\ vec.shape = "Heap"
  /\ len(vec) = 0
  /\ op.name \in {"pop", "remove", "clear"}

----------------------------------------------------------------------------
\* The plain unbounded sequence (a Vec) given the call c in state s.
RefValid(s, c) ==
  /\ c.name = "insert" => c.index <= Len(s)
  /\ c.name = "remove" => c.index < Len(s)

RefSeq(s, c) ==
  CASE c.name = "push" -> s \o <<c.item>>
    [] c.name = "pop" -> IF s = <<>> THEN s ELSE [i \in 1..(Len(s) - 1) |-> s[i]]
    [] c.name = "insert" ->
         [i \in 1..(Len(s) + 1) |->
            IF i <= c.index THEN s[i] ELSE IF i = c.index + 1 THEN c.item ELSE s[i - 1]]
    [] c.name = "remove" ->
         [i \in 1..(Len(s) - 1) |-> IF i <= c.index THEN s[i] ELSE s[i + 1]]
    [] c.name = "clear" -> <<>>

RefRet(s, c) ==
  CASE c.name = "push" -> Unit
    [] c.name = "pop" -> IF s = <<>> THEN None ELSE Some(s[Len(s)])
    [] c.name = "insert" -> Unit
    [] c.name = "remove" -> Value(s[c.index + 1])
    [] c.name = "clear" -> Unit

\* C2: from every constructor and under every valid call, vec behaves like
\* a plain sequence given the same calls, whatever N is: the constructor
\* leaves the source sequence, and each call changes the projection, the
\* length and the return value exactly as the call changes a plain sequence.
C2_RefinesSequence ==
  /\ [](op.name \in Constructors => Live(vec) = op.src /\ len(vec) = Len(op.src))
  /\ [][vars' # vars /\ RefValid(Live(vec), op') =>
          /\ Live(vec') = RefSeq(Live(vec), op')
          /\ len(vec') = Len(RefSeq(Live(vec), op'))
          /\ ret' = RefRet(Live(vec), op')]_vars

\* A value was removed from the middle of an inline container.
C2_Witness ==
  /\ op.name = "remove"
  /\ ret.kind = "Value"
  /\ vec.shape = "Stack"
  /\ 0 < op.index /\ op.index < vec.len

----------------------------------------------------------------------------
\* C3: in Stack shape the length never exceeds N.
C3_StackLenWithinN ==
  vec.shape = "Stack" => vec.len <= N

\* A push or insert filled the last inline slot.
C3_Witness ==
  /\ vec.shape = "Stack"
  /\ N > 0
  /\ vec.len = N
  /\ op.name \in {"push", "insert"}

----------------------------------------------------------------------------
\* C4: in both shapes the read-only and the mutable projection have len()
\* elements, and element i of each is the single-index read vec[i].
C4_ProjectionAgrees ==
  /\ Len(as_ref(vec)) = len(vec)
  /\ Len(as_mut(vec)) = len(vec)
  /\ Len(deref(vec)) = len(vec)
  /\ Len(deref_mut(vec)) = len(vec)
  /\ \A i \in 0..(len(vec) - 1) :
       /\ index_usize(vec, i) = Value(as_ref(vec)[i + 1])
       /\ index_usize(vec, i) = Value(as_mut(vec)[i + 1])
       /\ index_usize(vec, i) = Value(deref(vec)[i + 1])
       /\ index_usize(vec, i) = Value(deref_mut(vec)[i + 1])

\* An inline container that shrank: live elements below N, a used slot above.
C4_Witness ==
  /\ vec.shape = "Stack"
  /\ 0 < vec.len /\ vec.len < N
  /\ op.name \in {"pop", "remove"}
  /\ vec.buf[vec.len + 1] # Default

----------------------------------------------------------------------------
\* C5: promotion is lazy and loses nothing. From new(), pushes alone keep
\* vec in Stack shape up to length N and put it in Heap shape from length
\* N + 1 on; every push appends its item to the live sequence, and a push in
\* Heap shape stays in Heap shape.
C5_LazyPromotion ==
  /\ [](ctor = "new" /\ pushOnly =>
          IF len(vec) <= N THEN vec.shape = "Stack" ELSE vec.shape = "Heap")
  /\ [][Called("push") =>
          /\ Live(vec') = Append(Live(vec), op'.item)
          /\ len(vec') = len(vec) + 1
          /\ vec.shape = "Stack" /\ vec.len < N => vec'.shape = "Stack"
          /\ vec.shape = "Stack" /\ vec.len = N => vec'.shape = "Heap"
          /\ vec.shape = "Heap" => vec'.shape = "Heap"]_vars

\* The (N+1)-th push after new() with N > 0: the first overflow.
C5_Witness ==
  /\ ctor = "new"
  /\ pushOnly
  /\ N > 0
  /\ vec.shape = "Heap"
  /\ len(vec) = N + 1

----------------------------------------------------------------------------
\* C6: push and pop are last-in-first-out in both shapes. A pop returns the
\* last live element and leaves the ones before it, so L pops return the L
\* elements in reverse order; a pop right after a push returns the pushed
\* item; a pop of an empty container returns None without a panic and
\* leaves shape and length as they were.
C6_PushPopLifo ==
  /\ [][Called("pop") /\ Live(vec) # <<>> =>
          /\ ret' = Some(Live(vec)[Len(Live(vec))])
          /\ Live(vec') = SubSeq(Live(vec), 1, Len(Live(vec)) - 1)
          /\ vec'.shape = vec.shape]_vars
  /\ [][Called("pop") /\ op.name = "push" => ret' = Some(op.item)]_vars
  /\ [][op'.name = "pop" /\ Live(vec) = <<>> =>
          /\ ret' = None
          /\ vec'.shape = vec.shape
          /\ len(vec') = len(vec)]_vars

\* A container built by new(), promoted, popped empty and popped once more.
C6_Witness ==
  /\ ctor = "new"
  /\ op.name = "pop"
  /\ ret = None
  /\ vec.shape = "Heap"

----------------------------------------------------------------------------
\* C7: insert(index, item) with index <= len puts item at position index,
\* keeps the elements before it, moves the elements from index on one
\* position later and adds 1 to the length; vec is in Stack shape afterwards
\* iff it was in Stack shape with len < N, and in Heap shape otherwise.
C7_InsertShifts ==
  [][Called("insert") /\ op'.index <= len(vec) =>
       /\ ret' = Unit
       /\ len(vec') = len(vec) + 1
       /\ Len(Live(vec')) = Len(Live(vec)) + 1
       /\ Live(vec')[op'.index + 1] = op'.item
       /\ \A k \in 1..op'.index : Live(vec')[k] = Live(vec)[k]
       /\ \A k \in (op'.index + 1)..Len(Live(vec)) : Live(vec')[k + 1] = Live(vec)[k]
       /\ vec'.shape = "Stack" <=> (vec.shape = "Stack" /\ vec.len < N)
       /\ vec'.shape # "Stack" => vec'.shape = "Heap"]_vars

\* An insert into the middle of an inline container that stayed inline.
C7_Witness ==
  /\ op.name = "insert"
  /\ ret = Unit
  /\ vec.shape = "Stack"
  /\ 0 < op.index
  /\ op.index + 1 < vec.len

----------------------------------------------------------------------------
\* C8: remove(index) with index < len returns the element at position
\* index, keeps the elements before it, moves the later ones one position
\* earlier, takes 1 from the length and leaves the shape as it was.
C8_RemoveShifts ==
  [][Called("remove") /\ op'.index < len(vec) =>
       /\ ret' = Value(Live(vec)[op'.index + 1])
       /\ len(vec') = len(vec) - 1
       /\ Len(Live(vec')) = Len(Live(vec)) - 1
       /\ \A k \in 1..op'.index : Live(vec')[k] = Live(vec)[k]
       /\ \A k \in (op'.index + 1)..Len(Live(vec')) : Live(vec')[k] = Live(vec)[k + 1]
       /\ vec'.shape = vec.shape]_vars

\* A remove from an inline container with elements on both sides of index.
C8_Witness ==
  /\ op.name = "remove"
  /\ ret.kind = "Value"
  /\ vec.shape = "Stack"
  /\ 0 < op.index
  /\ op.index < vec.len
  /\ vec.buf[op.index] # vec.buf[op.index + 1]

----------------------------------------------------------------------------
\* C9: construction threshold. From an array of length K, capacity M gives
\* Stack shape with len = K and the K elements in order iff K <= M, and Heap
\* shape with all K elements otherwise; from a Vec it is Heap shape around
\* the same elements whatever its length; new() is Stack shape with len 0.
C9_ConstructionThreshold ==
  /\ op.name = "from_array" /\ Len(op.src) <= N =>
       /\ vec.shape = "Stack"
       /\ vec.len = Len(op.src)
       /\ Len(vec.buf) = N
       /\ \A k \in 1..Len(op.src) : vec.buf[k] = op.src[k]
  /\ op.name = "from_array" /\ Len(op.src) > N =>
       /\ vec.shape = "Heap"
       /\ vec.v = op.src
  /\ op.name = "from_vec" =>
       /\ vec.shape = "Heap"
       /\ vec.v = op.src
  /\ op.name = "new" =>
       /\ vec.shape = "Stack"
       /\ vec.len = 0
       /\ Len(vec.buf) = N

\* An array that exactly fills the inline buffer.
C9_Witness ==
  /\ op.name = "from_array"
  /\ N > 0
  /\ Len(op.src) = N
  /\ vec.shape = "Stack"
  /\ vec.buf = op.src

----------------------------------------------------------------------------
\* C10: clear() sets the length to 0 and keeps the shape; afterwards the
\* projection is empty and a pop returns None.
C10_ClearKeepsShape ==
  /\ [][Called("clear") =>
          /\ ret' = Unit
          /\ len(vec') = 0
          /\ Live(vec') = <<>>
          /\ vec'.shape = vec.shape]_vars
  /\ [][op.name = "clear" /\ op'.name = "pop" => ret' = None /\ len(vec') = 0]_vars

\* A heap-shaped container with elements was cleared.
C10_Witness ==
  /\ op.name = "clear"
  /\ vec.shape = "Heap"
  /\ ctor = "from_array"
  /\ len(vec) = 0

----------------------------------------------------------------------------
\* The part of a sequence s from position start (0-based) to its end.
SuffixOf(s, start) == [k \in 1..(Len(s) - start) |-> s[start + k]]

\* The part of a sequence s at positions start..end-1 (0-based).
PartOf(s, start, end) == [k \in 1..(end - start) |-> s[start + k]]

\* C11 as claimed: for every length L, 0 included, and in either shape,
\* vec[..L] and vec[0..] succeed and show the whole projection; vec[..end]
\* with end > L and vec[index] with index >= L abort.
C11_SliceBoundsAnyLength ==
  /\ [][Called("index_to") /\ op'.end = len(vec) => ret' = Slice(Live(vec))]_vars
  /\ [][Called("index_from") /\ op'.index = 0 => ret' = Slice(Live(vec))]_vars
  /\ [][Called("index_to") /\ op'.end > len(vec) => ret' = Panic]_vars
  /\ [][Called("index") /\ op'.index >= len(vec) => ret' = Panic]_vars

\* C11 amended: vec[..L] succeeds and shows the whole projection for every
\* length L, vec[0..] does so for every L >= 1, in either shape; vec[..end]
\* with end > L and vec[index] with index >= L abort.
C11_SliceBounds ==
  /\ [][Called("index_to") /\ op'.end = len(vec) => ret' = Slice(Live(vec))]_vars
  /\ [][Called("index_from") /\ op'.index = 0 /\ len(vec) >= 1 =>
          ret' = Slice(Live(vec))]_vars
  /\ [][Called("index_to") /\ op'.end > len(vec) => ret' = Panic]_vars
  /\ [][Called("index") /\ op'.index >= len(vec) => ret' = Panic]_vars

\* vec[0..] of an inline container with live elements and a used slot above.
C11_Witness ==
  /\ op.name = "index_from"
  /\ op.index = 0
  /\ ret.kind = "Slice"
  /\ vec.shape = "Stack"
  /\ 0 < vec.len /\ vec.len < N
  /\ vec.buf[vec.len + 1] # Default

----------------------------------------------------------------------------
\* C12: vec[start..] is valid iff start < len, in both shapes alike: it
\* shows the live elements from start on when start < len and aborts when
\* start >= len.
C12_SuffixValidIffBelowLen ==
  [][Called("index_from") =>
       IF op'.index < len(vec)
       THEN ret' = Slice(SuffixOf(Live(vec), op'.index))
       ELSE ret' = Panic]_vars

----------------------------------------------------------------------------
\* C13: positions out of range are fatal in both shapes: vec[index] read or
\* written with index >= len, insert with index > len and remove with
\* index >= len all panic and return nothing, also on an empty container and
\* also when the slot exists in the inline buffer.
C13_OutOfRangeAborts ==
  /\ [][Called("index") /\ op'.index >= len(vec) => ret' = Panic]_vars
  /\ [][Called("index_mut") /\ op'.index >= len(vec) => ret' = Panic]_vars
  /\ [][Called("insert") /\ op'.index > len(vec) => ret' = Panic]_vars
  /\ [][Called("remove") /\ op'.index >= len(vec) => ret' = Panic]_vars

\* remove aimed at a slot of the inline buffer above the live elements.
C13_Witness ==
  /\ op.name = "remove"
  /\ ret = Panic
  /\ vec.shape = "Stack"
  /\ vec.len > 0
  /\ vec.len <= op.index /\ op.index < N

----------------------------------------------------------------------------
\* C14: consuming iteration hands out every live element once and in order,
\* in both shapes: the k-th next returns element k - 1 of the container as
\* into_iter took it, the counter never passes the live length, and every
\* next after the last element returns None.
C14_IterationInOrder ==
  /\ [](iter.active => iter.counter <= len(vec) /\ len(vec) = Len(orig))
  /\ [][op'.name = "into_iter" /\ vars' # vars =>
          iter'.counter = 0 /\ orig' = Live(vec)]_vars
  /\ [][Called("next") /\ iter.counter < Len(orig) =>
          ret' = Some(orig[iter.counter + 1]) /\ iter'.counter = iter.counter + 1]_vars
  /\ [][op'.name = "next" /\ iter.active /\ iter.counter >= Len(orig) =>
          ret' = None /\ iter'.counter = iter.counter]_vars

\* An inline container of distinct elements iterated to its end.
C14_Witness ==
  /\ iter.active
  /\ op.name = "next"
  /\ ret = None
  /\ vec.shape = "Stack"
  /\ Len(orig) >= 2
  /\ orig[1] # orig[2]
  /\ iter.counter = Len(orig)

----------------------------------------------------------------------------
\* Everything a caller can observe of self: the projections, every index,
\* prefix, suffix and range access, what pop, remove, insert, push and clear
\* return and leave live, and what an iterator over self returns.
Observed(self) ==
  [ref |-> as_ref(self),
   mut |-> as_mut(self),
   length |-> len(self),
   index |-> [i \in Indices |-> index_usize(self, i)],
   indexMut |-> [i \in Indices |-> index_mut(self, i)],
   to |-> [e \in Indices |-> index_to(self, e)],
   from |-> [s \in Indices |-> index_from(self, s)],
   range |-> [p \in Indices \X Indices |-> index_range(self, p[1], p[2])],
   pop |-> <<pop(self).ret, as_ref(pop(self).self)>>,
   remove |-> [i \in Indices |-> <<remove(self, i).ret, as_ref(remove(self, i).self)>>],
   insert |-> [i \in Indices |->
                 <<insert(self, i, Default).ret, as_ref(insert(self, i, Default).self)>>],
   push |-> as_ref(push(self, Default).self),
   clear |-> as_ref(clear(self).self),
   next |-> [c \in Indices |-> <<next(self, c).ret, as_ref(next(self, c).self)>>]]

\* self with other content in one slot at or above the live length.
DeadSlotVariants(self) ==
  IF self.shape = "Stack"
  THEN {Stack([self.buf EXCEPT ![j] = x], self.len) :
          j \in (self.len + 1)..Len(self.buf), x \in Vals}
  ELSE {}

\* C16: slots at index >= len are never observable. Whatever an inline
\* container holds above its live length, old values left by pop, remove and
\* clear included, no access, no mutator and no iteration returns or shows
\* it: every observation is the same for any other content of such a slot.
C16_DeadSlotsUnobservable ==
  \A other \in DeadSlotVariants(vec) : Observed(other) = Observed(vec)

\* An inline container that shrank and still stores an old value above len.
C16_Witness ==
  /\ vec.shape = "Stack"
  /\ vec.len < N
  /\ op.name \in {"pop", "remove", "clear"}
  /\ ret # Panic
  /\ vec.buf[vec.len + 1] # Default

----------------------------------------------------------------------------
\* C17: vec[start..end] never mis-slices: in both shapes it shows the live
\* elements at positions start..end-1 when start <= end <= len and aborts in
\* every other case.
C17_RangeExactOrAbort ==
  [][Called("index_range") =>
       IF op'.index <= op'.end /\ op'.end <= len(vec)
       THEN ret' = Slice(PartOf(Live(vec), op'.index, op'.end))
       ELSE ret' = Panic]_vars

\* A range with start > end inside the live part of an inline container.
C17_Witness ==
  /\ op.name = "index_range"
  /\ ret = Panic
  /\ vec.shape = "Stack"
  /\ op.end < op.index
  /\ op.index <= vec.len

----------------------------------------------------------------------------
\* C18: a mutator that aborts leaves the container as it was: after insert
\* with index > len or remove with index >= len has panicked, shape and live
\* sequence are those before the call.
C18_AbortLeavesUnchanged ==
  [][(Called("insert") \/ Called("remove")) /\ ret' = Panic =>
       vec'.shape = vec.shape /\ Live(vec') = Live(vec)]_vars

----------------------------------------------------------------------------
\* The container at rest while Bsn or fizz_buzz runs.
ContainerIdle ==
  /\ N = 0
  /\ vec = new(0)
  /\ op = Construct("new", <<>>)
  /\ ret = Unit
  /\ ctor = "new"
  /\ pushOnly = TRUE
  /\ iter = NoIter
  /\ orig = <<>>

containerVars == <<N, vec, op, ret, ctor, pushOnly, iter, orig>>

----------------------------------------------------------------------------
\* Bsn: one input string, handed to each entry point.

InitBsn ==
  /\ ContainerIdle
  /\ fizz = FizzIdle
  /\ \E s \in BsnInputs : bsn = [input |-> s, call |-> "none", res |-> "none"]

Validate ==
  /\ bsn' = [bsn EXCEPT !.call = "validate", !.res = validate(bsn.input)]
  /\ UNCHANGED <<containerVars, fizz>>

TryFromString ==
  /\ bsn' = [bsn EXCEPT !.call = "try_from_string", !.res = try_from_string(bsn.input)]
  /\ UNCHANGED <<containerVars, fizz>>

Deserialize ==
  /\ bsn' = [bsn EXCEPT !.call = "deserialize", !.res = deserialize(bsn.input)]
  /\ UNCHANGED <<containerVars, fizz>>

NextBsn ==
  \/ Validate
  \/ TryFromString
  \/ Deserialize

SpecBsn == InitBsn /\ [][NextBsn]_vars

----------------------------------------------------------------------------
\* fizz_buzz: one buffer, reused from call to call.

InitFizz ==
  /\ ContainerIdle
  /\ bsn = BsnIdle
  /\ fizz = FizzIdle

FizzBuzz ==
  \E i \in 0..MaxI :
    /\ fizz' = [i |-> i,
                result |-> fizz_buzz(i, fizz.result),
                prev |-> fizz.result,
                call |-> "fizz_buzz"]
    /\ UNCHANGED <<containerVars, bsn>>

NextFizz == FizzBuzz

SpecFizz == InitFizz /\ [][NextFizz]_vars

----------------------------------------------------------------------------
\* The eleven-test: nine digits d1..d9 with 9*d1 + 8*d2 + ... + 2*d8 - d9
\* divisible by 11.
ElevenTest(s) ==
  /\ Len(s) = 9
  /\ \A k \in 1..9 : s[k] \in 48..57
  /\ LET d == [k \in 1..9 |-> s[k] - 48]
     IN (9 * d[1] + 8 * d[2] + 7 * d[3] + 6 * d[4] + 5 * d[5] + 4 * d[6]
         + 3 * d[7] + 2 * d[8] - d[9] + 11) % 11 = 0

\* C15: validate accepts exactly the valid BSNs: Ok for every string that
\* passes the eleven-test, "999998456" among them, and Err(InvalidBsn), never
\* a panic, for every other string; try_from_string and deserialization
\* succeed exactly when validate returns Ok.
C15_ValidateAcceptsValid ==
  /\ bsn.call = "validate" =>
       bsn.res = (IF ElevenTest(bsn.input) THEN "Ok" ELSE "Err")
  /\ bsn.call \in {"try_from_string", "deserialize"} =>
       (bsn.res = "Ok" <=> validate(bsn.input) = "Ok")

----------------------------------------------------------------------------
RECURSIVE DecimalValue(_)
\* The number a sequence of digit characters writes.
DecimalValue(s) ==
  IF s = <<>> THEN 0
  ELSE 10 * DecimalValue(SubSeq(s, 1, Len(s) - 1))
       + ((CHOOSE d \in 1..10 : DigitChar[d] = s[Len(s)]) - 1)

\* C19: with a reused buffer, result holds after every call the output for
\* the last i alone, whatever it held before: "FizzBuzz" when 3 and 5
\* divide i, "Fizz" when only 3 does, "Buzz" when only 5 does, and the
\* decimal digits of i otherwise.
C19_FizzBuzzLastOnly ==
  fizz.call = "fizz_buzz" =>
    IF fizz.i % 3 = 0 /\ fizz.i % 5 = 0
    THEN fizz.result = <<"F", "i", "z", "z", "B", "u", "z", "z">>
    ELSE IF fizz.i % 3 = 0 THEN fizz.result = <<"F", "i", "z", "z">>
    ELSE IF fizz.i % 5 = 0 THEN fizz.result = <<"B", "u", "z", "z">>
    ELSE /\ \A k \in 1..Len(fizz.result) : \E d \in 1..10 : DigitChar[d] = fizz.result[k]
         /\ fizz.result[1] # "0"
         /\ DecimalValue(fizz.result) = fizz.i

\* A number written into a buffer that held the longer "FizzBuzz".
C19_Witness ==
  /\ fizz.call = "fizz_buzz"
  /\ fizz.prev = <<"F", "i", "z", "z", "B", "u", "z", "z">>
  /\ fizz.i = 101
  /\ fizz.result = <<"1", "0", "1">>

====
